---------------------------- MODULE Spec2Model ----------------------------
(***************************************************************************)
(* Model of the financial performance dashboard script src/fp.py.          *)
(*                                                                         *)
(* The script is executed from top to bottom on every user interaction.    *)
(* One action of the model is one such execution: the first run (page      *)
(* configuration, load, session initialisation, render), a run triggered   *)
(* by changing one sidebar widget, the run in which the reset button is    *)
(* pressed (it ends at line 113, before the view is computed) and the      *)
(* execution that follows it.                                              *)
(*                                                                         *)
(* Library behaviour the script relies on                                  *)
(*   - st.set_page_config is called at lines 12-20 with the keywords       *)
(*     theme= and icon=.  Whether the installed streamlit accepts them is  *)
(*     a property of the installation (accepts_theme): where it does not,  *)
(*     every execution ends at line 12 in a TypeError and nothing below    *)
(*     is reached; the releases of streamlit known to this development do  *)
(*     not accept them.                                                    *)
(*   - a widget returns the value the user gave it, or its default when    *)
(*     untouched;                                                          *)
(*   - the chained df[col].fillna(0, inplace=True) of lines 52-53 updates  *)
(*     df, as it does in pandas before 3.0;                                *)
(*   - the optional 'Operating Expenses' column is numeric as pd.read_csv  *)
(*     infers it (load_data does not clean it);                            *)
(*   - two things differ between pandas 1.x and pandas 2.x, and load_data  *)
(*     is given the major version it runs under: pd.read_csv reads the     *)
(*     text None as a missing value from 2.0 on, and pd.to_datetime reads  *)
(*     each cell on its own (month first and, where that is no date, day   *)
(*     first) in 1.x while 2.x fixes one format for the whole column from  *)
(*     its first cell.  Timestamps are nanoseconds, 1677-09-22 to          *)
(*     2262-04-11;                                                         *)
(*   - pd.to_numeric reads a string as pandas' precise_xstrtod does: at    *)
(*     most 17 digits, a decimal exponent above 308 or a value beyond the  *)
(*     float range is a parse error (NaN under errors='coerce'), a value   *)
(*     below the float range is 0; the exponent is summed in a C int, and  *)
(*     where its digits exceed the int it wraps around, as the builds of   *)
(*     pandas do ('1e4294967297' is 10.0); inf and infinity are read in    *)
(*     any letter case;                                                    *)
(*   - px.scatter(size='Sales') raises for a view holding a record whose   *)
(*     sales are missing or negative; sns.heatmap raises on a pivot        *)
(*     without cells, and whether it draws a pivot holding an infinite sum *)
(*     is left open.                                                       *)
(*                                                                         *)
(* Value representation                                                    *)
(*   - a cell of a currency column of the CSV file is its text, a sequence *)
(*     of characters.  A character is a one-character string; a character  *)
(*     outside printable ASCII other than tab, line feed, carriage return  *)
(*     and form feed is written as the name of its code point, "U+00A0";   *)
(*   - a float is a triple <<n, d, e>>: the number n/d * 10^e when d > 0   *)
(*     (n/d in lowest terms, d without the factors 2 and 5, n not a        *)
(*     multiple of 10, zero is <<0,1,0>>), <<1,0,0>> / <<-1,0,0>> for      *)
(*     +inf / -inf and <<0,0,0>> for NaN / pd.NA.  A result beyond the     *)
(*     range of a float64 is +-inf, one below it is 0, and a sum whose     *)
(*     smaller term is less than 10^-17 of the larger one is the larger    *)
(*     term.  Within the range the numbers are exact: the rounding of      *)
(*     binary floats to 53 bits is not modelled, nor is the sign of zero.  *)
(*     Numerators and denominators are 32-bit integers, so a number of     *)
(*     more than nine significant digits cannot be written;                *)
(*   - a date cell is the triple <<a, b, yyyy>> read from the text         *)
(*     "a/b/yyyy" (four-digit year); a parsed date is a record [y, m, d],  *)
(*     NaT is all zeros;                                                   *)
(*   - a missing label (country, segment, product, discount band) is the   *)
(*     string "<NA>", which pd.read_csv itself reads as missing.           *)
(***************************************************************************)
EXTENDS Integers, Sequences, FiniteSets, TLC

VARIABLES
    accepts_theme, \* whether st.set_page_config takes the keywords of lines 12-20
    source,       \* the file financial_data.csv (never written by the script),
                  \* its rows given by their names in RawRows
    pc,           \* where the last run ended: "start" (none yet),
                  \* "config_error" (line 12), "stopped" (st.stop),
                  \* "crashed" (line 100), "rerun" (line 113), "ready" (the end or
                  \* a chart of lines 192-282)
    df,           \* the data frame returned by load_data
    sel,          \* st.session_state: the five filter selections
    filtered_df,  \* the filtered view the last run computed (<<>> when it
                  \* ended before line 122)
    kpi,          \* the KPI scalars the last run computed (<<>> when none)
    pnl_data,     \* the P&L table the last run computed
    rendered,     \* the elements the last run put on the page
    lastOp,       \* which kind of run the last one was
    reset_from    \* history: the view a reset found, "narrowed" or "full"

vars ==
    <<accepts_theme, source, pc, df, sel, filtered_df, kpi, pnl_data, rendered,
      lastOp, reset_from>>

----------------------------------------------------------------------------
(* Bounds of the model *)

MaxRows == 2

----------------------------------------------------------------------------
(* Floats: numbers, infinities and missing values *)

NaN == <<0, 0, 0>>

Inf == <<1, 0, 0>>

NegInf == <<-1, 0, 0>>

IsNaN(x) == x = NaN

IsFinite(x) == x[2] > 0

Abs(v) == IF v < 0 THEN -v ELSE v

RECURSIVE Gcd(_, _)
Gcd(a, b) == IF b = 0 THEN a ELSE Gcd(b, a % b)

RECURSIVE Pow10(_)
Pow10(k) == IF k = 0 THEN 1 ELSE 10 * Pow10(k - 1)

\* n/d * 10^e with the factors 10 of n moved into the exponent
RECURSIVE StripTens(_, _, _)
StripTens(n, d, e) ==
    IF n = 0 THEN <<0, 1, 0>>
    ELSE IF n % 10 = 0 THEN StripTens(n \div 10, d, e + 1)
    ELSE <<n, d, e>>

\* n/d * 10^e with the factors 2 and 5 of d moved into the exponent
RECURSIVE StripTwosAndFives(_, _, _)
StripTwosAndFives(n, d, e) ==
    IF d % 2 = 0 THEN StripTwosAndFives(5 * n, d \div 2, e - 1)
    ELSE IF d % 5 = 0 THEN StripTwosAndFives(2 * n, d \div 5, e - 1)
    ELSE StripTens(n, d, e)

\* n/d in lowest terms with d > 0, times 10^e
LowestTerms(n, d, e, g) ==
    IF d < 0 THEN StripTwosAndFives((-n) \div g, (-d) \div g, e)
    ELSE StripTwosAndFives(n \div g, d \div g, e)

\* the number n/d * 10^e for integers n, d # 0 and e
Dec(n, d, e) == LowestTerms(n, d, e, Gcd(Abs(n), Abs(d)))

\* floor(log10(n/d)) for n, d > 0
RECURSIVE Log10Floor(_, _)
Log10Floor(n, d) ==
    IF n >= 10 * d THEN Log10Floor(n, 10 * d) + 1
    ELSE IF n < d THEN Log10Floor(10 * n, d) - 1
    ELSE 0

\* the decimal exponent of the first significant digit of x # 0
Order(x) == Log10Floor(Abs(x[1]), x[2]) + x[3]

\* the digits of p/q, a number from 1 up to 10, against the digits T:
\* -1 below, 0 the same as far as T goes, 1 above
RECURSIVE CompareDigits(_, _, _)
CompareDigits(p, q, T) ==
    IF T = <<>> THEN 0
    ELSE IF p \div q > Head(T) THEN 1
    ELSE IF p \div q < Head(T) THEN -1
    ELSE CompareDigits(10 * (p % q), q, Tail(T))

\* the significant digits of n/d, whose first digit has exponent k, against T
CompareScaled(n, d, k, T) ==
    IF k >= 0 THEN CompareDigits(n, d * Pow10(k), T)
    ELSE CompareDigits(n * Pow10(-k), d, T)

\* the significant digits of x # 0 against T
CompareSignificand(x, T) ==
    CompareScaled(Abs(x[1]), x[2], Log10Floor(Abs(x[1]), x[2]), T)

\* 2^1024 - 2^970 = 1.7976931348623158079...e308, the least magnitude that
\* rounds to inf
MaxExp10 == 308

MaxFloatDigits == <<1, 7, 9, 7, 6, 9, 3, 1, 3, 4, 8, 6, 2, 3, 1, 5, 8, 0, 7, 9>>

\* 2^-1075 = 2.4703282292062327208...e-324, half the least subnormal: the
\* greatest magnitude that rounds to 0
MinExp10 == -324

MinFloatDigits == <<2, 4, 7, 0, 3, 2, 8, 2, 2, 9, 2, 0, 6, 2, 3, 2, 7, 2, 0, 8>>

\* the magnitude of x # 0 rounds to inf
Overflows(x) ==
    \/ Order(x) > MaxExp10
    \/ Order(x) = MaxExp10 /\ CompareSignificand(x, MaxFloatDigits) >= 0

\* the magnitude of x # 0 rounds to 0
Underflows(x) ==
    \/ Order(x) < MinExp10
    \/ Order(x) = MinExp10 /\ CompareSignificand(x, MinFloatDigits) <= 0

\* numerators and denominators have at most ten digits, so a number whose
\* exponent lies within these limits is neither rounded to inf nor to 0
SafeExpLow == MinExp10 + 12

SafeExpHigh == MaxExp10 - 12

\* the float64 an arithmetic result x is stored as
float64(x) ==
    IF x[2] = 0 \/ x[1] = 0 THEN x
    ELSE IF x[3] > SafeExpLow /\ x[3] < SafeExpHigh THEN x
    ELSE IF Overflows(x) THEN (IF x[1] > 0 THEN Inf ELSE NegInf)
    ELSE IF Underflows(x) THEN <<0, 1, 0>>
    ELSE x

\* the float of the integer v
Num(v) == StripTens(v, 1, 0)

\* the float n / d for integers n and d # 0
Frac(n, d) == Dec(n, d, 0)

Neg(x) == <<-x[1], x[2], x[3]>>

\* Series.abs()
AbsV(x) == <<Abs(x[1]), x[2], x[3]>>

\* a term smaller than the other by this many decimal orders is less than
\* half a unit in the last place of the other (10^-17 < 2^-54)
AbsorbSpan == 18

\* the sum of the numbers a and b written with the common exponent e
AddAligned(a, b, e) ==
    float64(Dec(a[1] * Pow10(a[3] - e) * b[2] + b[1] * Pow10(b[3] - e) * a[2],
                a[2] * b[2], e))

\* the sum of the numbers a and b, a being span decimal orders above b: the
\* smaller term is lost when it is too small to change the larger
AddOrdered(a, b, span) ==
    IF span >= AbsorbSpan THEN a
    ELSE IF -span >= AbsorbSpan THEN b
    ELSE AddAligned(a, b, IF a[3] < b[3] THEN a[3] ELSE b[3])

\* float addition: NaN is absorbing, inf + -inf is NaN
Add(a, b) ==
    IF IsNaN(a) \/ IsNaN(b) THEN NaN
    ELSE IF a[2] = 0 /\ b[2] = 0 THEN (IF a = b THEN a ELSE NaN)
    ELSE IF a[2] = 0 THEN a
    ELSE IF b[2] = 0 THEN b
    ELSE IF b[1] = 0 THEN a
    ELSE IF a[1] = 0 THEN b
    ELSE AddOrdered(a, b, Order(a) - Order(b))

Sub(a, b) == Add(a, Neg(b))

\* float division: x/0 is +-inf, 0/0 and inf/inf are NaN, x/inf is 0
Divide(p, s) ==
    IF IsNaN(p) \/ IsNaN(s) THEN NaN
    ELSE IF p[2] = 0 /\ s[2] = 0 THEN NaN
    ELSE IF p[2] = 0 THEN (IF s[1] < 0 THEN Neg(p) ELSE p)
    ELSE IF s[2] = 0 THEN Num(0)
    ELSE IF s[1] = 0
         THEN (IF p[1] = 0 THEN NaN ELSE IF p[1] > 0 THEN Inf ELSE NegInf)
         ELSE float64(Dec(p[1] * s[2], p[2] * s[1], p[3] - s[3]))

\* Series.replace(0, pd.NA)
Replace0(x) == IF x = Num(0) THEN NaN ELSE x

\* Series.fillna(0)
FillNa0(r) == IF IsNaN(r) THEN Num(0) ELSE r

----------------------------------------------------------------------------
(* Cleaning and parsing of a currency cell (fp.py lines 34-37) *)

Digits == <<"0", "1", "2", "3", "4", "5", "6", "7", "8", "9">>

IsDigit(c) == \E i \in 1..10 : Digits[i] = c

DigitVal(c) == (CHOOSE i \in 1..10 : Digits[i] = c) - 1

AllDigits(s) == \A i \in 1..Len(s) : IsDigit(s[i])

UpperCase ==
    <<"A", "B", "C", "D", "E", "F", "G", "H", "I", "J", "K", "L", "M",
      "N", "O", "P", "Q", "R", "S", "T", "U", "V", "W", "X", "Y", "Z">>

LowerCase ==
    <<"a", "b", "c", "d", "e", "f", "g", "h", "i", "j", "k", "l", "m",
      "n", "o", "p", "q", "r", "s", "t", "u", "v", "w", "x", "y", "z">>

Lower(c) ==
    IF \E i \in 1..26 : UpperCase[i] = c
    THEN LowerCase[CHOOSE i \in 1..26 : UpperCase[i] = c]
    ELSE c

\* the characters str.strip() removes: the 29 characters for which
\* str.isspace() holds
Whitespace ==
    {"\t", "\n", "U+000B", "\f", "\r", "U+001C", "U+001D", "U+001E", "U+001F",
     " ", "U+0085", "U+00A0", "U+1680", "U+2000", "U+2001", "U+2002", "U+2003",
     "U+2004", "U+2005", "U+2006", "U+2007", "U+2008", "U+2009", "U+200A",
     "U+2028", "U+2029", "U+202F", "U+205F", "U+3000"}

\* .str.replace('$', '', regex=False).str.replace(',', '', regex=False)
RemoveSymbols(s) == SelectSeq(s, LAMBDA c : c \notin {"$", ","})

RECURSIVE LStrip(_)
LStrip(s) == IF s # <<>> /\ Head(s) \in Whitespace THEN LStrip(Tail(s)) ELSE s

RECURSIVE RStrip(_)
RStrip(s) ==
    IF s # <<>> /\ s[Len(s)] \in Whitespace
    THEN RStrip(SubSeq(s, 1, Len(s) - 1))
    ELSE s

\* .str.strip()
Strip(s) == RStrip(LStrip(s))

RECURSIVE DecimalValue(_)
DecimalValue(s) ==
    IF s = <<>> THEN 0
    ELSE 10 * DecimalValue(SubSeq(s, 1, Len(s) - 1)) + DigitVal(s[Len(s)])

\* the number of digits s begins with
Span(s) ==
    IF \E i \in 1..Len(s) : ~IsDigit(s[i])
    THEN (CHOOSE i \in 1..Len(s) :
              ~IsDigit(s[i]) /\ \A j \in 1..(i - 1) : IsDigit(s[j])) - 1
    ELSE Len(s)

Take(s, k) == SubSeq(s, 1, k)

Drop(s, k) == SubSeq(s, k + 1, Len(s))

\* the digit string s without its trailing zeros
RECURSIVE DropTrailingZeros(_)
DropTrailingZeros(s) ==
    IF s # <<>> /\ s[Len(s)] = "0"
    THEN DropTrailingZeros(SubSeq(s, 1, Len(s) - 1))
    ELSE s

\* precise_xstrtod reads at most this many digits of the mantissa and of the
\* exponent
max_digits == 17

\* the halves of a 32-bit word hold 16 bits each
Half == 65536

\* n = n * 10 + digit for every digit of s in a C int, n given as the high
\* and the low half of its 32 bits; the int wraps around where the digits
\* exceed it
RECURSIVE AccumulateInt(_, _, _)
AccumulateInt(hi, lo, s) ==
    IF s = <<>> THEN <<hi, lo>>
    ELSE AccumulateInt(
             (hi * 10 + ((lo * 10 + DigitVal(Head(s))) \div Half)) % Half,
             (lo * 10 + DigitVal(Head(s))) % Half,
             Tail(s))

\* the C int whose 32 bits are the halves w
Int32(w) ==
    IF w[1] >= Half \div 2 THEN (w[1] - Half) * Half + w[2]
    ELSE w[1] * Half + w[2]

INT_MAX == 2147483647

INT_MIN == -INT_MAX - 1

\* a + b in a C int, wrapping around
AddInt32(a, b) ==
    IF a > 0 /\ b > INT_MAX - a THEN (a - INT_MAX - 1) + (b - INT_MAX - 1)
    ELSE IF a < 0 /\ b < INT_MIN - a THEN (a + INT_MAX + 1) + (b + INT_MAX + 1)
    ELSE a + b

\* a - b in a C int, wrapping around
SubInt32(a, b) ==
    IF b = INT_MIN THEN AddInt32(AddInt32(a, INT_MAX), 1) ELSE AddInt32(a, -b)

\* exponent += n, or exponent -= n after a minus sign, n read from the
\* digits ebody
ExponentSum(exponent, eneg, ebody) ==
    IF eneg THEN SubInt32(exponent, Int32(AccumulateInt(0, 0, ebody)))
    ELSE AddInt32(exponent, Int32(AccumulateInt(0, 0, ebody)))

\* the value precise_xstrtod returns for a number it scaled: one that is
\* infinite is the error ERANGE, a parse failure
RangeChecked(v) ==
    IF v[1] = 0 THEN v
    ELSE IF Overflows(v) THEN NaN
    ELSE IF Underflows(v) THEN <<0, 1, 0>>
    ELSE v

\* the digits sig, read as an integer, times 10^k
DigitsTimes(negative, sig, k) ==
    IF negative THEN Dec(-DecimalValue(sig), 1, k) ELSE Dec(DecimalValue(sig), 1, k)

\* number * 10^exponent for the digits read; an exponent above 308 is the
\* error ERANGE
Scaled(negative, digits, exponent) ==
    IF exponent > MaxExp10 THEN NaN
    ELSE RangeChecked(
             DigitsTimes(negative, DropTrailingZeros(digits),
                         exponent + Len(digits) - Len(DropTrailingZeros(digits))))

\* the digits of the mantissa that are read: the first max_digits
KeptDigits(ipart, fpart) ==
    IF Len(ipart \o fpart) > max_digits THEN Take(ipart \o fpart, max_digits)
    ELSE ipart \o fpart

\* the exponent the mantissa contributes: one up for every integer digit
\* that is not read, one down for every fraction digit that is
MantissaExponent(ipart, fpart) ==
    IF Len(ipart) >= max_digits THEN Len(ipart) - max_digits
    ELSE IF Len(fpart) < max_digits - Len(ipart) THEN -Len(fpart)
    ELSE -(max_digits - Len(ipart))

\* the exponent digits ebody after the mark and its sign; without a digit
\* the mark is not part of the number, and text is left over
ExponentDigits(negative, ipart, fpart, eneg, ebody) ==
    IF ebody = <<>> \/ ~AllDigits(ebody) \/ Len(ebody) > max_digits THEN NaN
    ELSE Scaled(negative, KeptDigits(ipart, fpart),
                ExponentSum(MantissaExponent(ipart, fpart), eneg, ebody))

\* the text etext after the exponent mark: an optional sign, then digits
ExponentSign(negative, ipart, fpart, etext) ==
    IF etext # <<>> /\ Head(etext) \in {"-", "+"}
    THEN ExponentDigits(negative, ipart, fpart, Head(etext) = "-", Tail(etext))
    ELSE ExponentDigits(negative, ipart, fpart, FALSE, etext)

\* the text rest after the mantissa: nothing, or an exponent; a mantissa
\* without a digit and text left over are errors
ExponentPart(negative, ipart, fpart, rest) ==
    IF ipart \o fpart = <<>> THEN NaN
    ELSE IF rest = <<>>
    THEN Scaled(negative, KeptDigits(ipart, fpart), MantissaExponent(ipart, fpart))
    ELSE IF Head(rest) \in {"e", "E"}
    THEN ExponentSign(negative, ipart, fpart, Tail(rest))
    ELSE NaN

\* the text rest after the integer digits: an optional decimal point with
\* the fraction digits
DecimalPart(negative, ipart, rest) ==
    IF rest # <<>> /\ Head(rest) = "."
    THEN ExponentPart(negative, ipart, Take(Tail(rest), Span(Tail(rest))),
                      Drop(Tail(rest), Span(Tail(rest))))
    ELSE ExponentPart(negative, ipart, <<>>, rest)

\* the text body after the sign: the integer digits first
IntegerPart(negative, body) ==
    DecimalPart(negative, Take(body, Span(body)), Drop(body, Span(body)))

\* variant: the sign of the text dropped
to_double_unsigned(s) ==
    IF s # <<>> /\ Head(s) \in {"-", "+"}
    THEN IntegerPart(FALSE, Tail(s))
    ELSE IntegerPart(FALSE, s)

\* pandas' to_double (precise_xstrtod and the test that it read all of s):
\* the number, or NaN for an error
to_double(s) ==
    IF s # <<>> /\ Head(s) \in {"-", "+"}
    THEN IntegerPart(Head(s) = "-", Tail(s))
    ELSE IntegerPart(FALSE, s)

Lowered(s) == [i \in 1..Len(s) |-> Lower(s[i])]

INF == <<"i", "n", "f">>

INFINITY == <<"i", "n", "f", "i", "n", "i", "t", "y">>

\* pandas' floatify, given what to_double made of s: a text that is no
\* number may still be inf or infinity, signed, in any letter case
floatify(s, number) ==
    IF number # NaN THEN number
    ELSE IF Lowered(s) \in {INF, <<"+">> \o INF, INFINITY, <<"+">> \o INFINITY}
    THEN Inf
    ELSE IF Lowered(s) \in {<<"-">> \o INF, <<"-">> \o INFINITY} THEN NegInf
    ELSE NaN

\* pd.to_numeric(errors='coerce') on a string: anything that is no number,
\* 'nan' and the empty string included, is NaN
to_numeric(s) == floatify(s, to_double(s))

clean(cell) == Strip(RemoveSymbols(cell))

parse_currency(cell) == to_numeric(clean(cell))

----------------------------------------------------------------------------
(* Dates (fp.py lines 39-44) *)

NaT == [y |-> 0, m |-> 0, d |-> 0]

IsLeap(y) == (y % 4 = 0 /\ y % 100 # 0) \/ y % 400 = 0

DaysInMonth(y, m) ==
    IF m = 2 THEN (IF IsLeap(y) THEN 29 ELSE 28)
    ELSE IF m \in {4, 6, 9, 11} THEN 30 ELSE 31

\* order of dates
DateLE(a, b) ==
    \/ a.y < b.y
    \/ a.y = b.y /\ a.m < b.m
    \/ a.y = b.y /\ a.m = b.m /\ a.d <= b.d

\* the first and the last day a nanosecond timestamp can hold
MinTimestamp == [y |-> 1677, m |-> 9, d |-> 22]

MaxTimestamp == [y |-> 2262, m |-> 4, d |-> 11]

\* year y, month m, day d is a date of the calendar
IsCalendarDate(y, m, d) ==
    /\ y \in 1..9999
    /\ m \in 1..12
    /\ d >= 1
    /\ d <= DaysInMonth(y, m)

\* year y, month m, day d is a calendar date that a timestamp can hold
IsTimestamp(y, m, d) ==
    /\ IsCalendarDate(y, m, d)
    /\ DateLE(MinTimestamp, [y |-> y, m |-> m, d |-> d])
    /\ DateLE([y |-> y, m |-> m, d |-> d], MaxTimestamp)

\* the timestamp of year y, month m, day d; NaT when there is none
Timestamp(y, m, d) ==
    IF IsTimestamp(y, m, d) THEN [y |-> y, m |-> m, d |-> d] ELSE NaT

\* the text "a/b/yyyy" read on its own: month a and day b where that is a
\* date, else day a and month b, else NaT
parse_cell(cell) ==
    IF IsCalendarDate(cell[3], cell[1], cell[2])
    THEN Timestamp(cell[3], cell[1], cell[2])
    ELSE Timestamp(cell[3], cell[2], cell[1])

\* the format pandas 2 guesses from the text "a/b/yyyy"; "" when it is no
\* date either way
guess_datetime_format(cell) ==
    IF IsCalendarDate(cell[3], cell[1], cell[2]) THEN "%m/%d/%Y"
    ELSE IF IsCalendarDate(cell[3], cell[2], cell[1]) THEN "%d/%m/%Y"
    ELSE ""

\* the text "a/b/yyyy" read with the format fmt
strptime(cell, fmt) ==
    IF fmt = "%m/%d/%Y" THEN Timestamp(cell[3], cell[1], cell[2])
    ELSE Timestamp(cell[3], cell[2], cell[1])

PandasMajors == {1, 2}

\* pd.to_datetime(errors='coerce') on the column cells: pandas 2 reads every
\* cell with the format of the first one when it can guess that, pandas 1
\* and pandas 2 without a format read each cell on its own
to_datetime(cells, pandas) ==
    IF pandas >= 2 /\ cells # <<>> /\ guess_datetime_format(cells[1]) # ""
    THEN [i \in 1..Len(cells) |->
              strptime(cells[i], guess_datetime_format(cells[1]))]
    ELSE [i \in 1..Len(cells) |-> parse_cell(cells[i])]

\* the day after date
NextDay(date) ==
    IF date.d < DaysInMonth(date.y, date.m)
    THEN [date EXCEPT !.d = date.d + 1]
    ELSE IF date.m < 12 THEN [y |-> date.y, m |-> date.m + 1, d |-> 1]
    ELSE [y |-> date.y + 1, m |-> 1, d |-> 1]

MonthNames ==
    <<"January", "February", "March", "April", "May", "June", "July",
      "August", "September", "October", "November", "December">>

\* df['Date'].dt.year
YearOf(date) == date.y

\* df['Date'].dt.month_name()
MonthNameOf(date) == MonthNames[date.m]

QuarterNames == <<"Qtr 1", "Qtr 2", "Qtr 3", "Qtr 4">>

\* df['Date'].dt.quarter.apply(lambda x: f'Qtr {x}')
QuarterOf(date) == QuarterNames[((date.m - 1) \div 3) + 1]

----------------------------------------------------------------------------
(* The CSV file: the rows it may hold *)

RawRow(country, segment, product, band, date, units, mp, sp, gross, disc, sales, cogs, profit, opex) ==
    [Country |-> country, Segment |-> segment, Product |-> product,
     DiscountBand |-> band, Date |-> date,
     UnitsSold |-> units, ManufacturingPrice |-> mp, SalePrice |-> sp,
     GrossSales |-> gross, Discounts |-> disc, Sales |-> sales, COGS |-> cogs,
     Profit |-> profit, OperatingExpenses |-> opex]

\* "$120", "$10", "$100", "$40", "$20": a plain profitable sale; the
\* manufacturing price is "$3.50"
RowA ==
    RawRow("US", "Government", "Paseo", "Low", <<12, 30, 2023>>,
           <<"1", "0", "0">>, <<"$", "3", ".", "5", "0">>, <<"$", "2", "0">>,
           <<"$", "1", "2", "0">>, <<"$", "1", "0">>, <<"$", "1", "0", "0">>,
           <<"$", "4", "0">>, <<"$", "2", "0">>, Num(30))

\* all amounts zero; the discount is written "$-" as spreadsheets export 0,
\* the manufacturing price "1e4294967297", whose exponent exceeds a C int,
\* the sale price "1e-324", and the discount band is left empty
RowB ==
    RawRow("CA", "Midmarket", "Velo", "", <<12, 31, 2023>>,
           <<"0">>, <<"1", "e", "4", "2", "9", "4", "9", "6", "7", "2", "9", "7">>,
           <<"1", "e", "-", "3", "2", "4">>,
           <<"$", "0">>, <<"$", "-">>, <<"0">>,
           <<"0", ".", "0", "0">>, <<"0">>, NaN)

\* thousands separators, white space as padding (a tab and a vertical tab
\* in front, a blank and a no-break space behind), the prices "1e999" and
\* "$2E1", a negative discount, cogs of "Inf" and the loss written "$(50)"
\* in accounting style
RowC ==
    RawRow("US", "Government", "Paseo", "High", <<1, 2, 2024>>,
           <<"1", ",", "5", "0", "0">>, <<"1", "e", "9", "9", "9">>,
           <<"$", "2", "E", "1">>,
           <<"\t", "U+000B", "$", "1", ",", "3", "0", "0", " ", "U+00A0">>,
           <<"-", "1", "0", "0">>,
           <<"1", ",", "2", "0", "0">>,
           <<"I", "n", "f">>, <<"$", "(", "5", "0", ")">>, Num(25))

\* 30 February: the date does not parse although the amounts do; the
\* discount band is the text None
RowD ==
    RawRow("CA", "Government", "Velo", "None", <<2, 30, 2023>>,
           <<"5", "0">>, <<"$", "4">>, <<"$", "1", "0">>,
           <<"$", "5", "0", "0">>, <<"$", "0">>, <<"$", "5", "0", "0">>,
           <<"$", "2", "0", "0">>, <<"$", "3", "0", "0">>, Num(10))

\* returned units, the sale price "1.798e308", amounts with cents, sales
\* "N/A", a loss written with a minus sign
RowE ==
    RawRow("CA", "Government", "Velo", "Low", <<1, 1, 2024>>,
           <<"-", "2">>, <<"$", "3">>,
           <<"1", ".", "7", "9", "8", "e", "3", "0", "8">>,
           <<"$", "1", "5", ".", "5", "0">>, <<"$", "5", ".", "2", "5">>,
           <<"N", "/", "A">>,
           <<"$", "1", "0">>, <<"-", "3">>, Num(5))

\* the rows by the names the file is written down with
RawRows == [A |-> RowA, B |-> RowB, C |-> RowC, D |-> RowD, E |-> RowE]

\* the tables of up to MaxRows rows, no row twice, as the names of their rows
RowSeqs ==
    UNION {{rs \in [1..n -> DOMAIN RawRows] :
               \A i, j \in 1..n : i # j => rs[i] # rs[j]} : n \in 0..MaxRows}

\* the file: absent, present but unreadable, or a table with or without the
\* optional 'Operating Expenses' column
Sources ==
    {[kind |-> k, rows |-> <<>>, hasOpEx |-> FALSE] : k \in {"missing", "unreadable"}}
    \cup {[kind |-> "ok", rows |-> rs, hasOpEx |-> b] : rs \in RowSeqs, b \in BOOLEAN}

\* the rows of the file src
csv_rows(src) == [i \in 1..Len(src.rows) |-> RawRows[src.rows[i]]]

----------------------------------------------------------------------------
(* load_data (fp.py lines 23-61) *)

currency_cols ==
    {"UnitsSold", "ManufacturingPrice", "SalePrice", "GrossSales", "Discounts",
     "Sales", "COGS", "Profit"}

\* df['Profit'] / df['Sales'].replace(0, pd.NA), then fillna(0)
ProfitMargin(profit, sales) == FillNa0(Divide(profit, Replace0(sales)))

\* df['COGS'] / df['Sales'].replace(0, pd.NA), then fillna(0)
COGSToSales(cogs, sales) == FillNa0(Divide(cogs, Replace0(sales)))

\* df['Discounts'].abs()
TotalDiscounts(disc) == AbsV(disc)

\* df['Gross Sales'] - df['Total Discounts']
NetSales(gross, tdisc) == Sub(gross, tdisc)

label_cols == {"Country", "Segment", "Product", "DiscountBand"}

\* the texts pd.read_csv reads as a missing value
na_values(pandas) ==
    {"", "#N/A", "#N/A N/A", "#NA", "-1.#IND", "-1.#QNAN", "-NaN", "-nan",
     "1.#IND", "1.#QNAN", "<NA>", "N/A", "NA", "NULL", "NaN", "n/a", "nan",
     "null"}
    \cup (IF pandas >= 2 THEN {"None"} ELSE {})

NA == "<NA>"

\* line 26: a cell of a text column as pd.read_csv reads it.  (A currency
\* cell it reads as missing becomes 'nan' at line 36 and NaN at line 37, the
\* same as parsing its text.)
read_label(text, pandas) == IF text \in na_values(pandas) THEN NA ELSE text

\* lines 41-50: the row with its date columns and derived columns, given
\* its labels, its parsed date and its parsed currency columns
with_derived_columns(i, raw, hasOpEx, date, parsed, labels) ==
    [idx |-> i, Country |-> labels["Country"], Segment |-> labels["Segment"],
     Product |-> labels["Product"], DiscountBand |-> labels["DiscountBand"],
     Date |-> date,
     UnitsSold |-> parsed["UnitsSold"],
     ManufacturingPrice |-> parsed["ManufacturingPrice"],
     SalePrice |-> parsed["SalePrice"],
     GrossSales |-> parsed["GrossSales"],
     Discounts |-> parsed["Discounts"],
     Sales |-> parsed["Sales"],
     COGS |-> parsed["COGS"],
     Profit |-> parsed["Profit"],
     OperatingExpenses |-> IF hasOpEx THEN raw.OperatingExpenses ELSE NaN,
     Year |-> YearOf(date),
     MonthName |-> IF date = NaT THEN "" ELSE MonthNameOf(date),
     Quarter |-> IF date = NaT THEN "" ELSE QuarterOf(date),
     ProfitMargin |-> ProfitMargin(parsed["Profit"], parsed["Sales"]),
     TotalDiscounts |-> TotalDiscounts(parsed["Discounts"]),
     TotalRevenue |-> parsed["GrossSales"],
     COGSToSales |-> COGSToSales(parsed["COGS"], parsed["Sales"]),
     NetSales |-> NetSales(parsed["GrossSales"],
                           TotalDiscounts(parsed["Discounts"]))]

\* one row of the frame: the labels, the cleaned currency columns, the
\* parsed date and the derived columns; idx is the row's index label (its
\* position in the file)
Record(i, raw, hasOpEx, date, pandas) ==
    with_derived_columns(i, raw, hasOpEx, date,
                         [c \in currency_cols |-> parse_currency(raw[c])],
                         [c \in label_cols |-> read_label(raw[c], pandas)])

\* df['Date'] as read from the file
DateColumn(rows) == [i \in 1..Len(rows) |-> rows[i].Date]

\* lines 26-53 before the rows without a date are dropped
prepared(rows, hasOpEx, dates, pandas) ==
    [i \in 1..Len(rows) |-> Record(i, rows[i], hasOpEx, dates[i], pandas)]

\* variant: dropna without the subset, dropping every row that has a missing
\* amount as well
dropna_any(rows) ==
    SelectSeq(rows, LAMBDA r :
        r.Date # NaT /\ \A c \in currency_cols : ~IsNaN(r[c]))

\* df.dropna(subset=['Date'], inplace=True)
dropna_Date(rows) == SelectSeq(rows, LAMBDA r : r.Date # NaT)

\* variant: the handlers report the error and return without st.stop()
load_data_without_stop(src, pandas) ==
    IF src.kind = "ok"
    THEN [halt |-> FALSE, error |-> "",
          df |-> dropna_Date(
                     prepared(csv_rows(src), src.hasOpEx,
                              to_datetime(DateColumn(csv_rows(src)), pandas), pandas))]
    ELSE [halt |-> FALSE, error |-> "Exception", df |-> <<>>]

\* load_data under pandas of the given major version; halt: the function
\* ended in st.error(...); st.stop()
load_data(src, pandas) ==
    IF src.kind = "missing"
    THEN [halt |-> TRUE, error |-> "FileNotFoundError", df |-> <<>>]
    ELSE IF src.kind = "unreadable"
    THEN [halt |-> TRUE, error |-> "Exception", df |-> <<>>]
    ELSE [halt |-> FALSE, error |-> "",
          df |-> dropna_Date(
                     prepared(csv_rows(src), src.hasOpEx,
                              to_datetime(DateColumn(csv_rows(src)), pandas), pandas))]

----------------------------------------------------------------------------
(* Session state and sidebar widgets (fp.py lines 65-113) *)

ColumnValues(d, col) == {d[i][col] : i \in 1..Len(d)}

all_countries(d) == ColumnValues(d, "Country")

all_segments(d) == ColumnValues(d, "Segment")

all_years(d) == ColumnValues(d, "Year")

all_quarters(d) == ColumnValues(d, "Quarter")

\* df['Date'].min().date(): NaT for a frame without rows
min_date(d) ==
    IF d = <<>> THEN NaT
    ELSE CHOOSE a \in ColumnValues(d, "Date") :
             \A b \in ColumnValues(d, "Date") : DateLE(a, b)

\* df['Date'].max().date()
max_date(d) ==
    IF d = <<>> THEN NaT
    ELSE CHOOSE a \in ColumnValues(d, "Date") :
             \A b \in ColumnValues(d, "Date") : DateLE(b, a)

\* the session state before the first run
NoSelection ==
    [countries |-> {}, segments |-> {}, years |-> {}, quarters |-> {},
     date_range |-> <<>>]

\* lines 66-75: the session state the first run starts from
initial_selection(d) ==
    [countries |-> ColumnValues(d, "Country"),
     segments |-> ColumnValues(d, "Segment"),
     years |-> ColumnValues(d, "Year"),
     quarters |-> ColumnValues(d, "Quarter"),
     date_range |-> <<min_date(d), max_date(d)>>]

\* variant: the reset takes the option lists from the view on display
reset_selection_from_view(d) ==
    IF filtered_df = <<>> THEN sel
    ELSE [countries |-> all_countries(filtered_df),
          segments |-> all_segments(filtered_df),
          years |-> all_years(filtered_df),
          quarters |-> all_quarters(filtered_df),
          date_range |-> <<min_date(filtered_df), max_date(filtered_df)>>]

\* lines 108-112: the reset button assigns the widgets' option lists, which
\* lines 80-101 computed from the whole frame d
reset_selection(d) ==
    [countries |-> all_countries(d), segments |-> all_segments(d),
     years |-> all_years(d), quarters |-> all_quarters(d),
     date_range |-> <<min_date(d), max_date(d)>>]

\* what one interaction with st.multiselect can turn the selection cur into:
\* one option added, one option removed, or the selection cleared
MultiselectEdits(options, cur) ==
    ({cur \cup {o} : o \in options} \cup {cur \ {o} : o \in options} \cup {{}})
    \ {cur}

\* the days from a to b, both included
RECURSIVE DaysFrom(_, _)
DaysFrom(a, b) == IF DateLE(a, b) THEN {a} \cup DaysFrom(NextDay(a), b) ELSE {}

\* the days st.date_input lets the user pick: every day from min_value =
\* min_date to max_value = max_date, with or without a record
DateChoices(d) == IF d = <<>> THEN {} ELSE DaysFrom(min_date(d), max_date(d))

\* what st.date_input can return: a (start, end) pair within the bounds, or
\* the 1-tuple (start,) while the end has not been picked yet
DateRanges(d) ==
    {range \in DateChoices(d) \X DateChoices(d) : DateLE(range[1], range[2])}
    \cup {<<a>> : a \in DateChoices(d)}

----------------------------------------------------------------------------
(* The filtered view (fp.py lines 115-129) *)

start_date(range) == range[1]

end_date(range) == IF Len(range) = 2 THEN range[2] ELSE range[1]

\* variant: the end of the date range taken as exclusive
Passes_exclusive_end(r, s) ==
    /\ r.Country \in s.countries
    /\ r.Segment \in s.segments
    /\ r.Year \in s.years
    /\ r.Quarter \in s.quarters
    /\ DateLE(start_date(s.date_range), r.Date)
    /\ DateLE(r.Date, end_date(s.date_range))
    /\ r.Date # end_date(s.date_range)

Passes(r, s) ==
    /\ r.Country \in s.countries
    /\ r.Segment \in s.segments
    /\ r.Year \in s.years
    /\ r.Quarter \in s.quarters
    /\ DateLE(start_date(s.date_range), r.Date)
    /\ DateLE(r.Date, end_date(s.date_range))

RECURSIVE Reversed(_)
Reversed(rows) ==
    IF rows = <<>> THEN <<>> ELSE Append(Reversed(Tail(rows)), Head(rows))

\* variant: the view returned latest row first
ApplyFilter_reversed(d, s) == Reversed(SelectSeq(d, LAMBDA r : Passes(r, s)))

ApplyFilter(d, s) == SelectSeq(d, LAMBDA r : Passes(r, s))

----------------------------------------------------------------------------
(* Aggregations (fp.py lines 139-187) *)

\* Series.sum(): missing values are skipped
RECURSIVE SumCol(_, _)
SumCol(rows, col) ==
    IF rows = <<>> THEN Num(0)
    ELSE IF IsNaN(Head(rows)[col]) THEN SumCol(Tail(rows), col)
    ELSE Add(Head(rows)[col], SumCol(Tail(rows), col))

\* variant: the total sales card summing the gross sales column
KPIs_gross_for_sales(fd) ==
    [total_sales       |-> SumCol(fd, "GrossSales"),
     total_gross_sales |-> SumCol(fd, "GrossSales"),
     total_profit      |-> SumCol(fd, "Profit"),
     gross_profit      |-> Sub(SumCol(fd, "GrossSales"), SumCol(fd, "COGS")),
     net_profit_calc   |-> Sub(SumCol(fd, "Profit"), SumCol(fd, "TotalDiscounts"))]

\* the five st.metric values
KPIs(fd) ==
    [total_sales       |-> SumCol(fd, "Sales"),
     total_gross_sales |-> SumCol(fd, "GrossSales"),
     total_profit      |-> SumCol(fd, "Profit"),
     gross_profit      |-> Sub(SumCol(fd, "GrossSales"), SumCol(fd, "COGS")),
     net_profit_calc   |-> Sub(SumCol(fd, "Profit"), SumCol(fd, "TotalDiscounts"))]

\* lines 139-160: the metrics are computed only for a non-empty view
kpi_section(fd) == IF fd # <<>> THEN <<KPIs(fd)>> ELSE <<>>

RECURSIVE SortedSeq(_)
SortedSeq(S) ==
    IF S = {} THEN <<>>
    ELSE LET lo == CHOOSE x \in S : \A y \in S : x <= y
         IN  <<lo>> \o SortedSeq(S \ {lo})

\* sorted(filtered_df['Year'].unique())
years_in_data(fd) == SortedSeq(ColumnValues(fd, "Year"))

\* variant: gross profit taken from net sales, net profit from the signed
\* discounts
pnl_year_net_sales(fd, year, hasOpEx) ==
    LET year_df == SelectSeq(fd, LAMBDA r : r.Year = year)
    IN  [Year              |-> year,
         Sales             |-> SumCol(year_df, "Sales"),
         CostOfSales       |-> SumCol(year_df, "COGS"),
         GrossProfit       |-> Sub(SumCol(year_df, "Sales"), SumCol(year_df, "COGS")),
         OperatingExpenses |-> IF hasOpEx THEN SumCol(year_df, "OperatingExpenses") ELSE Num(0),
         EBITDA            |-> SumCol(year_df, "Profit"),
         OperatingProfit   |-> SumCol(year_df, "Profit"),
         NetProfit         |-> Sub(SumCol(year_df, "Profit"), SumCol(year_df, "Discounts"))]

pnl_year(fd, year, hasOpEx) ==
    LET year_df == SelectSeq(fd, LAMBDA r : r.Year = year)
    IN  [Year              |-> year,
         Sales             |-> SumCol(year_df, "Sales"),
         CostOfSales       |-> SumCol(year_df, "COGS"),
         GrossProfit       |-> Sub(SumCol(year_df, "GrossSales"), SumCol(year_df, "COGS")),
         OperatingExpenses |-> IF hasOpEx THEN SumCol(year_df, "OperatingExpenses") ELSE Num(0),
         EBITDA            |-> SumCol(year_df, "Profit"),
         OperatingProfit   |-> SumCol(year_df, "Profit"),
         NetProfit         |-> Sub(SumCol(year_df, "Profit"), SumCol(year_df, "TotalDiscounts"))]

\* lines 167-187: one column per year, in ascending order; nothing for an
\* empty view
pnl_section(fd, hasOpEx) ==
    IF fd # <<>>
    THEN LET ys == years_in_data(fd)
         IN  [k \in 1..Len(ys) |-> pnl_year(fd, ys[k], hasOpEx)]
    ELSE <<>>

----------------------------------------------------------------------------
(* The page (fp.py lines 78-328) *)

\* a float below zero, -inf included
Negative(x) == x[1] < 0

\* line 258: the marker sizes px.scatter takes from 'Sales' must be numbers
\* from 0 up, +inf included, else it raises ValueError
scatter_raises(fd) ==
    \E i \in 1..Len(fd) : IsNaN(fd[i].Sales) \/ Negative(fd[i].Sales)

\* line 273: the cells of the pivot table, one for each product and
\* discount band of the view; a record without one of the two is left out
heatmap_data(fd) ==
    {<<fd[i].Product, fd[i].DiscountBand>> :
        i \in {j \in 1..Len(fd) : fd[j].Product # NA /\ fd[j].DiscountBand # NA}}

\* line 276: sns.heatmap raises ValueError for a pivot without cells
heatmap_raises(fd) == heatmap_data(fd) = {}

\* line 276 on a pivot that holds an infinite sum: whether sns.heatmap draws
\* it is left open
heatmap_may_raise(fd) ==
    \E i \in 1..Len(fd) :
        fd[i].Product # NA /\ fd[i].DiscountBand # NA /\ fd[i].Sales = Inf

\* the elements lines 78-254 put on the page
page_head(fd, hasOpEx) ==
    {"sidebar"}
    \cup (IF fd # <<>>
          THEN {"kpi_metrics", "pnl_table", "line_chart", "country_bar",
                "kpi_trend_area"}
          ELSE {"kpi_warning", "pnl_info", "line_info", "country_info",
                "kpi_trend_info"})
    \cup (IF fd # <<>> /\ hasOpEx
             /\ (\E i \in 1..Len(fd) : ~IsNaN(fd[i].OperatingExpenses))
          THEN {"expenses_area"} ELSE {"expenses_info"})

\* the element lines 256-269 put on the page
page_scatter(fd) == IF fd # <<>> THEN {"scatter"} ELSE {"scatter_info"}

\* the elements lines 271-328 put on the page
page_tail(fd) ==
    {"tips", "about"}
    \cup (IF fd # <<>> THEN {"heatmap"} ELSE {"heatmap_info"})

\* what one run that reaches line 115 can put on the page: all elements, or
\* those above the chart that raised and the exception
page(fd, hasOpEx) ==
    IF fd # <<>> /\ scatter_raises(fd)
    THEN {page_head(fd, hasOpEx) \cup {"exception"}}
    ELSE IF fd # <<>> /\ heatmap_raises(fd)
    THEN {page_head(fd, hasOpEx) \cup page_scatter(fd) \cup {"exception"}}
    ELSE IF fd # <<>> /\ heatmap_may_raise(fd)
    THEN {page_head(fd, hasOpEx) \cup page_scatter(fd) \cup {"exception"},
          page_head(fd, hasOpEx) \cup page_scatter(fd) \cup page_tail(fd)}
    ELSE {page_head(fd, hasOpEx) \cup page_scatter(fd) \cup page_tail(fd)}

----------------------------------------------------------------------------
(* The runs of the script *)

Init ==
    /\ accepts_theme \in BOOLEAN
    /\ source \in Sources
    /\ pc = "start"
    /\ df = <<>>
    /\ sel = NoSelection
    /\ filtered_df = <<>>
    /\ kpi = <<>>
    /\ pnl_data = <<>>
    /\ rendered = {}
    /\ lastOp = "none"
    /\ reset_from = "none"

\* lines 115-328 on frame d with session state s
Render(d, s) ==
    LET fd == ApplyFilter(d, s)
    IN  /\ sel' = s
        /\ filtered_df' = fd
        /\ kpi' = kpi_section(fd)
        /\ pnl_data' = pnl_section(fd, source.hasOpEx)
        /\ rendered' \in page(fd, source.hasOpEx)

\* a run under a streamlit that rejects the keywords of lines 12-20: the
\* call raises TypeError and the run ends there, as would every later one
RunRejectsPageConfig ==
    /\ pc = "start"
    /\ ~accepts_theme
    /\ pc' = "config_error"
    /\ rendered' = {"exception"}
    /\ lastOp' = "first"
    /\ UNCHANGED <<accepts_theme, source, df, sel, filtered_df, kpi, pnl_data,
                   reset_from>>

\* the first run, the load failing: st.error and st.stop inside load_data
FirstRunLoadFails ==
    /\ pc = "start"
    /\ accepts_theme
    /\ \E pandas \in PandasMajors : load_data(source, pandas).halt
    /\ pc' = "stopped"
    /\ rendered' = {"error"}
    /\ lastOp' = "first"
    /\ UNCHANGED <<accepts_theme, source, df, sel, filtered_df, kpi, pnl_data,
                   reset_from>>

\* the first run, under either major version of pandas, on a file without
\* a row whose date parses: df is empty, so
\* lines 66-75 initialise the session state with empty lists and (NaT, NaT)
\* and lines 100-104 hand NaT to the date widget as value and bounds.
\* Whether that raises is decided by the libraries, not by the script: this
\* action is the run that raises (outside any handler) with the four
\* multiselects drawn, FirstRun the run that completes.
FirstRunEmpty ==
    /\ pc = "start"
    /\ accepts_theme
    /\ \E pandas \in PandasMajors :
           /\ ~load_data(source, pandas).halt
           /\ df' = load_data(source, pandas).df
    /\ df' = <<>>
    /\ sel' = initial_selection(df')
    /\ pc' = "crashed"
    /\ rendered' = {"sidebar", "exception"}
    /\ lastOp' = "first"
    /\ UNCHANGED <<accepts_theme, source, filtered_df, kpi, pnl_data, reset_from>>

\* the first run, under either major version of pandas: load, initialise
\* the session state, render
FirstRun ==
    /\ pc = "start"
    /\ accepts_theme
    /\ \E pandas \in PandasMajors :
           /\ ~load_data(source, pandas).halt
           /\ df' = load_data(source, pandas).df
    /\ Render(df', initial_selection(df'))
    /\ pc' = "ready"
    /\ lastOp' = "first"
    /\ UNCHANGED <<accepts_theme, source, reset_from>>

\* a run after the user changed one sidebar widget; it may be the run that
\* follows a press of the reset button
UpdateCountries ==
    /\ pc \in {"ready", "rerun"}
    /\ \E S \in MultiselectEdits(all_countries(df), sel.countries) :
           Render(df, [sel EXCEPT !.countries = S])
    /\ pc' = "ready"
    /\ lastOp' = "update"
    /\ reset_from' = "none"
    /\ UNCHANGED <<accepts_theme, source, df>>

UpdateSegments ==
    /\ pc \in {"ready", "rerun"}
    /\ \E S \in MultiselectEdits(all_segments(df), sel.segments) :
           Render(df, [sel EXCEPT !.segments = S])
    /\ pc' = "ready"
    /\ lastOp' = "update"
    /\ reset_from' = "none"
    /\ UNCHANGED <<accepts_theme, source, df>>

UpdateYears ==
    /\ pc \in {"ready", "rerun"}
    /\ \E S \in MultiselectEdits(all_years(df), sel.years) :
           Render(df, [sel EXCEPT !.years = S])
    /\ pc' = "ready"
    /\ lastOp' = "update"
    /\ reset_from' = "none"
    /\ UNCHANGED <<accepts_theme, source, df>>

UpdateQuarters ==
    /\ pc \in {"ready", "rerun"}
    /\ \E S \in MultiselectEdits(all_quarters(df), sel.quarters) :
           Render(df, [sel EXCEPT !.quarters = S])
    /\ pc' = "ready"
    /\ lastOp' = "update"
    /\ reset_from' = "none"
    /\ UNCHANGED <<accepts_theme, source, df>>

UpdateDateRange ==
    /\ pc \in {"ready", "rerun"}
    /\ \E range \in DateRanges(df) :
           /\ range # sel.date_range
           /\ Render(df, [sel EXCEPT !.date_range = range])
    /\ pc' = "ready"
    /\ lastOp' = "update"
    /\ reset_from' = "none"
    /\ UNCHANGED <<accepts_theme, source, df>>

\* the run in which the reset button is pressed: lines 80-104 draw the
\* sidebar, lines 108-112 assign the session state and line 113 ends the
\* run, in st.experimental_rerun() or, under a streamlit that no longer has
\* it, in AttributeError; the view is not computed
ResetPress ==
    /\ pc \in {"ready", "rerun"}
    /\ sel' = reset_selection(df)
    /\ filtered_df' = <<>>
    /\ kpi' = <<>>
    /\ pnl_data' = <<>>
    /\ rendered' \in {{"sidebar"}, {"sidebar", "exception"}}
    /\ pc' = "rerun"
    /\ lastOp' = "press"
    /\ reset_from' = IF pc = "rerun" THEN reset_from
                     ELSE IF Len(filtered_df) < Len(df) THEN "narrowed"
                     ELSE "full"
    /\ UNCHANGED <<accepts_theme, source, df>>

\* the run that follows the press with no widget changed: the widgets show
\* the session state the press assigned
Rerun ==
    /\ pc = "rerun"
    /\ Render(df, sel)
    /\ pc' = "ready"
    /\ lastOp' = "reset"
    /\ UNCHANGED <<accepts_theme, source, df, reset_from>>

Next ==
    \/ RunRejectsPageConfig
    \/ FirstRunLoadFails
    \/ FirstRunEmpty
    \/ FirstRun
    \/ UpdateCountries
    \/ UpdateSegments
    \/ UpdateYears
    \/ UpdateQuarters
    \/ UpdateDateRange
    \/ ResetPress
    \/ Rerun

Spec == Init /\ [][Next]_vars

----------------------------------------------------------------------------
(* Properties *)

\* the record with index label i is part of the filtered view
InView(i) == \E j \in 1..Len(filtered_df) : filtered_df[j].idx = i

\* the start and the end of the selected date range
SelStart == sel.date_range[1]

SelEnd == sel.date_range[Len(sel.date_range)]

\* C1: in every run that computes the view, a record of the loaded dataset
\* is in the filtered view if and only if its country, segment, year and
\* quarter are in the selected sets and its date lies between the selected
\* start and end, both inclusive; an empty set in any one dimension
\* therefore gives an empty view.
C1_FilterIsConjunction ==
    pc = "ready" =>
        /\ \A i \in 1..Len(df) :
               InView(df[i].idx) <=>
                   /\ df[i].Country \in sel.countries
                   /\ df[i].Segment \in sel.segments
                   /\ df[i].Year \in sel.years
                   /\ df[i].Quarter \in sel.quarters
                   /\ DateLE(SelStart, df[i].Date)
                   /\ DateLE(df[i].Date, SelEnd)
        /\ ({} \in {sel.countries, sel.segments, sel.years, sel.quarters}
               => filtered_df = <<>>)

\* a record dated on the selected end date is kept while another record is
\* left out although only its date is outside the range
C1_Witness ==
    /\ pc = "ready"
    /\ lastOp = "update"
    /\ \E j \in 1..Len(filtered_df) : filtered_df[j].Date = SelEnd
    /\ \E i \in 1..Len(df) :
           /\ ~InView(df[i].idx)
           /\ df[i].Country \in sel.countries
           /\ df[i].Segment \in sel.segments
           /\ df[i].Year \in sel.years
           /\ df[i].Quarter \in sel.quarters

\* the distinct values of a column over the whole dataset
Distinct(col) == {df[i][col] : i \in 1..Len(df)}

\* the five selection components hold every value of the dataset
SelectsAll ==
    /\ sel.countries = Distinct("Country")
    /\ sel.segments = Distinct("Segment")
    /\ sel.years = Distinct("Year")
    /\ sel.quarters = Distinct("Quarter")
    /\ Len(sel.date_range) = 2
    /\ \A i \in 1..Len(df) :
           DateLE(SelStart, df[i].Date) /\ DateLE(df[i].Date, SelEnd)
    /\ (df # <<>> => {SelStart, SelEnd} \subseteq Distinct("Date"))

\* C2: a press of the reset button, whatever the selection before it, sets
\* the five selection components to the distinct countries, segments, years
\* and quarters of the whole dataset and to its earliest and latest date,
\* and the run that follows it shows the whole dataset as the filtered view;
\* a reset that follows a reset leaves the selection as it is.
C2_ResetRestoresAll ==
    /\ [](lastOp \in {"press", "reset"} => SelectsAll)
    /\ [](lastOp = "reset" => (pc = "ready" /\ filtered_df = df))
    /\ [][(lastOp \in {"press", "reset"} /\ lastOp' \in {"press", "reset"})
              => sel' = sel]_vars

\* the reset was pressed while the view showed only part of a dataset that
\* has two countries and two years, and the run after it shows both records
C2_Witness ==
    /\ lastOp = "reset"
    /\ reset_from = "narrowed"
    /\ Cardinality(sel.countries) = 2
    /\ Cardinality(sel.years) = 2
    /\ Len(filtered_df) = 2

NoSales(r) == IsNaN(r.Sales) \/ r.Sales = Num(0)

\* C3: for every loaded record both ratios are finite numbers (never
\* missing, never infinite), exactly 0 when sales is 0 or missing, and
\* otherwise profit / sales and cogs / sales (a missing profit or cogs
\* giving 0).
C3_RatiosFinite ==
    \A i \in 1..Len(df) :
        /\ IsFinite(df[i].ProfitMargin)
        /\ IsFinite(df[i].COGSToSales)
        /\ NoSales(df[i]) =>
               (df[i].ProfitMargin = Num(0) /\ df[i].COGSToSales = Num(0))
        /\ (~NoSales(df[i]) /\ ~IsNaN(df[i].Profit)) =>
               df[i].ProfitMargin = Divide(df[i].Profit, df[i].Sales)
        /\ (~NoSales(df[i]) /\ ~IsNaN(df[i].COGS)) =>
               df[i].COGSToSales = Divide(df[i].COGS, df[i].Sales)

\* What the rows of the file state, written down by hand as a reader of the
\* file takes them.  The day of the calendar a row is dated on, NaT for
\* 30 February, which is none
StatedDate ==
    [A |-> [y |-> 2023, m |-> 12, d |-> 30],
     B |-> [y |-> 2023, m |-> 12, d |-> 31],
     C |-> [y |-> 2024, m |-> 1, d |-> 2],
     D |-> NaT,
     E |-> [y |-> 2024, m |-> 1, d |-> 1]]

\* the labels of the rows that are dated, the empty discount band of row B
\* being a missing value
StatedLabels ==
    [A |-> [Country |-> "US", Segment |-> "Government", Product |-> "Paseo",
            DiscountBand |-> "Low"],
     B |-> [Country |-> "CA", Segment |-> "Midmarket", Product |-> "Velo",
            DiscountBand |-> NA],
     C |-> [Country |-> "US", Segment |-> "Government", Product |-> "Paseo",
            DiscountBand |-> "High"],
     E |-> [Country |-> "CA", Segment |-> "Government", Product |-> "Velo",
            DiscountBand |-> "Low"]]

\* the eight amounts of a row
Amounts(units, mp, sp, gross, disc, sales, cogs, profit) ==
    [UnitsSold |-> units, ManufacturingPrice |-> mp, SalePrice |-> sp,
     GrossSales |-> gross, Discounts |-> disc, Sales |-> sales, COGS |-> cogs,
     Profit |-> profit]

\* the amounts the rows state: $1,300 is 1300, $2E1 is 20, 1e4294967297 is
\* 10 (the exponent wraps around to 1), 1e-324 is 0, Inf is infinite; "$-",
\* "$(50)", "N/A", 1e999 and 1.798e308 are no numbers to pandas and state
\* none (NaN)
StatedAmounts ==
    [A |-> Amounts(Num(100), Frac(7, 2), Num(20), Num(120), Num(10), Num(100),
                   Num(40), Num(20)),
     B |-> Amounts(Num(0), Num(10), Num(0), Num(0), NaN, Num(0), Num(0), Num(0)),
     C |-> Amounts(Num(1500), NaN, Num(20), Num(1300), Num(-100), Num(1200),
                   Inf, NaN),
     D |-> Amounts(Num(50), Num(4), Num(10), Num(500), Num(0), Num(500),
                   Num(200), Num(300)),
     E |-> Amounts(Num(-2), Num(3), NaN, Frac(31, 2), Frac(21, 4), NaN,
                   Num(10), Num(-3))]

\* the positions of the file's rows that are dated on a day of the calendar
DatedRows == {i \in 1..Len(source.rows) : StatedDate[source.rows[i]] # NaT}

\* the name of the file's row that the record r was read from
RowOf(r) == source.rows[r.idx]

\* C4: load_data, which the first run calls (later runs take its cached
\* result), returns exactly the rows of the file whose date is a day of the
\* calendar, in their original order, each with the labels, the date and
\* the amounts its cells state; a row with a currency cell that states no
\* number is kept, with that field missing.
C4_LoadKeepsDatedRows ==
    (lastOp = "first" /\ pc \in {"ready", "crashed"}) =>
        /\ {df[j].idx : j \in 1..Len(df)} = DatedRows
        /\ \A j, k \in 1..Len(df) : j < k => df[j].idx < df[k].idx
        /\ \A j \in 1..Len(df) :
               /\ df[j].Date = StatedDate[RowOf(df[j])]
               /\ \A c \in label_cols : df[j][c] = StatedLabels[RowOf(df[j])][c]
               /\ \A c \in currency_cols : df[j][c] = StatedAmounts[RowOf(df[j])][c]

\* a row was dropped for its date, and a later row whose sales cell states
\* no number was kept with sales missing
C4_Witness ==
    /\ pc = "ready"
    /\ lastOp = "first"
    /\ Len(df) < Len(source.rows)
    /\ \E j \in 1..Len(df) : IsNaN(df[j].Sales) /\ df[j].idx = 2
    /\ df[1].idx = 2

\* C5: when the file is missing or unreadable no widget, KPI, table or
\* chart is ever produced and no session state is set; the run that reaches
\* load_data shows the error and halts in st.stop (a run ends earlier only
\* in the TypeError of the page configuration).
C5_FailedLoadHalts ==
    source.kind # "ok" =>
        /\ rendered \subseteq {"error", "exception"}
        /\ pc \in {"start", "stopped", "config_error"}
        /\ pc = "stopped" <=> rendered = {"error"}
        /\ pc = "config_error" <=> ~accepts_theme /\ lastOp = "first"
        /\ sel = NoSelection
        /\ df = <<>> /\ filtered_df = <<>> /\ kpi = <<>> /\ pnl_data = <<>>

\* the first run ended in the error message for a missing file
C5_Witness ==
    /\ source.kind = "missing"
    /\ pc = "stopped"
    /\ rendered = {"error"}

ZeroKPIs ==
    [total_sales |-> Num(0), total_gross_sales |-> Num(0),
     total_profit |-> Num(0), gross_profit |-> Num(0),
     net_profit_calc |-> Num(0)]

\* C6: on an empty filtered view the KPI scalars (total sales, gross sales,
\* profit, gross profit, net profit) are all 0 and the P&L table is empty.
C6_AsStated ==
    (pc = "ready" /\ filtered_df = <<>>) =>
        (kpi = <<ZeroKPIs>> /\ pnl_data = <<>>)

\* the sum of the amounts that the rows named in names state in a currency
\* column, a cell that states no number counting 0
RECURSIVE RawSum(_, _)
RawSum(names, col) ==
    IF names = <<>> THEN Num(0)
    ELSE IF IsNaN(StatedAmounts[Head(names)][col]) THEN RawSum(Tail(names), col)
    ELSE Add(StatedAmounts[Head(names)][col], RawSum(Tail(names), col))

\* C7 as stated, for the files on which the first run computes the KPIs:
\* the KPI totals of the default selection equal the sums over all raw
\* records.
C7_AsStated ==
    (source.kind = "ok" /\ lastOp = "first" /\ pc = "ready") =>
        /\ kpi # <<>>
        /\ kpi[1].total_sales = RawSum(source.rows, "Sales")
        /\ kpi[1].total_profit = RawSum(source.rows, "Profit")
        /\ kpi[1].total_gross_sales = RawSum(source.rows, "GrossSales")

\* the names of the file's rows that are dated on a day of the calendar
RawDated == SelectSeq(source.rows, LAMBDA name : StatedDate[name] # NaT)

\* C7, amended: for every file with at least one row whose date parses, a
\* run that renders the default selection (the first run, or the run after
\* a reset) shows as KPI totals of sales, profit and gross sales the sums of
\* the amounts those cells state over the raw rows whose date parses (rows
\* with an unparseable date are left out), a cell that states no number
\* counting 0.
C7_TotalsOfDatedRows ==
    (pc = "ready" /\ lastOp \in {"first", "reset"} /\ RawDated # <<>>) =>
        /\ kpi # <<>>
        /\ kpi[1].total_sales = RawSum(RawDated, "Sales")
        /\ kpi[1].total_profit = RawSum(RawDated, "Profit")
        /\ kpi[1].total_gross_sales = RawSum(RawDated, "GrossSales")

\* the first run on a file of two rows, one of them with sales of 500 and a
\* date that does not parse
C7_Witness ==
    /\ lastOp = "first"
    /\ pc = "ready"
    /\ Len(source.rows) = 2
    /\ Len(df) = 1
    /\ kpi[1].total_sales = Num(100)
    /\ RawSum(source.rows, "Sales") = Num(600)

NonProfitCols == currency_cols \ {"Profit"}

\* C8 as stated: every parsed currency field other than profit is
\* non-negative (or missing).
C8_AsStated ==
    \A i \in 1..Len(df) : \A c \in NonProfitCols : ~Negative(df[i][c])

\* the cell of record r in column c begins, once cleaned, with a minus sign
MinusSigned(r, c) ==
    /\ clean(RawRows[RowOf(r)][c]) # <<>>
    /\ Head(clean(RawRows[RowOf(r)][c])) = "-"

\* C8, amended: in the dataset load_data returns to the first run (no later
\* run changes it), total_discounts is the absolute value of discounts, so
\* non-negative or missing, for every record, and a parsed currency field is
\* negative exactly when its cleaned cell text begins with a minus sign and
\* states a number other than 0; the sign is kept, so units_sold, discounts
\* and the other fields can be negative like profit.
C8_SignFollowsText ==
    (lastOp = "first" /\ pc \in {"ready", "crashed"}) =>
        \A i \in 1..Len(df) :
            /\ ~Negative(df[i].TotalDiscounts)
            /\ df[i].TotalDiscounts \in {df[i].Discounts, Neg(df[i].Discounts)}
            /\ \A c \in currency_cols :
                   Negative(df[i][c])
                       <=> /\ MinusSigned(df[i], c)
                           /\ StatedAmounts[RowOf(df[i])][c] \notin {NaN, Num(0)}

\* the first run loaded a record with a negative discount, whose
\* total_discounts is its absolute value, and another with negative units
\* sold
C8_Witness ==
    /\ pc = "ready"
    /\ lastOp = "first"
    /\ \E i \in 1..Len(df) :
           df[i].Discounts = Num(-100) /\ df[i].TotalDiscounts = Num(100)
    /\ \E i \in 1..Len(df) : df[i].UnitsSold = Num(-2)

\* C9: the first run leaves as dataset what load_data returned, no update,
\* press of the reset button or later run changes the dataset or the file,
\* and the filtered view is always a subsequence of the dataset whose
\* records are unchanged and in their original order.
C9_DatasetReadOnly ==
    /\ []((lastOp = "first" /\ pc \in {"ready", "crashed"})
             => \E v \in PandasMajors : df = load_data(source, v).df)
    /\ [][lastOp # "none" => (df' = df /\ source' = source)]_vars
    /\ [](/\ \A j \in 1..Len(filtered_df) :
               \E i \in 1..Len(df) : df[i] = filtered_df[j]
          /\ \A j, k \in 1..Len(filtered_df) :
               j < k => filtered_df[j].idx < filtered_df[k].idx)

\* after an update the view still holds both records of the dataset
C9_Witness ==
    /\ pc = "ready"
    /\ lastOp = "update"
    /\ Len(filtered_df) = 2
    /\ Len(sel.date_range) = 1 \/ sel.date_range[1] # sel.date_range[2]

\* the filtered records of year y
OfYear(y) == SelectSeq(filtered_df, LAMBDA r : r.Year = y)

\* C10: for a non-empty filtered view the P&L table has one entry per year
\* of the view, in ascending order, each holding the year's sums: sales,
\* cost of sales = cogs, gross profit = gross sales - cogs, operating
\* expenses (0 without that column), ebitda = operating profit = profit and
\* net profit = profit - total discounts, a missing value counting 0.
C10_PnlByYear ==
    (pc = "ready" /\ filtered_df # <<>>) =>
        /\ {pnl_data[k].Year : k \in 1..Len(pnl_data)}
               = {filtered_df[j].Year : j \in 1..Len(filtered_df)}
        /\ \A j, k \in 1..Len(pnl_data) :
               j < k => pnl_data[j].Year < pnl_data[k].Year
        /\ \A k \in 1..Len(pnl_data) :
               LET rows == OfYear(pnl_data[k].Year)
                   row  == pnl_data[k]
               IN  /\ row.Sales = SumCol(rows, "Sales")
                   /\ row.CostOfSales = SumCol(rows, "COGS")
                   /\ row.GrossProfit
                          = Sub(SumCol(rows, "GrossSales"), SumCol(rows, "COGS"))
                   /\ row.OperatingExpenses
                          = IF source.hasOpEx
                            THEN SumCol(rows, "OperatingExpenses") ELSE Num(0)
                   /\ row.EBITDA = SumCol(rows, "Profit")
                   /\ row.OperatingProfit = SumCol(rows, "Profit")
                   /\ row.NetProfit
                          = Sub(SumCol(rows, "Profit"), SumCol(rows, "TotalDiscounts"))

\* a table of two years, the later one with missing sales and amounts with
\* cents, on a file that has the operating expenses column
C10_Witness ==
    /\ pc = "ready"
    /\ source.hasOpEx
    /\ Len(pnl_data) = 2
    /\ pnl_data[1].Year = 2023
    /\ pnl_data[2] = [Year |-> 2024, Sales |-> Num(0), CostOfSales |-> Num(10),
                      GrossProfit |-> Frac(11, 2), OperatingExpenses |-> Num(5),
                      EBITDA |-> Num(-3), OperatingProfit |-> Num(-3),
                      NetProfit |-> Frac(-33, 4)]

=============================================================================
